---- MODULE Spec2Model ----
(***************************************************************************)
(* Model of src/zones.py: the candle normaliser (generate_missing_candles),*)
(* the momentum classifier (find_base_candles), the zone detector          *)
(* (find_zones) and the zone merger (append_zones, driven by the while     *)
(* loop of generate_chart).                                                *)
(*                                                                         *)
(* A DataFrame is a sequence of records, one record per row, a column per  *)
(* field.  Python positions are 0-based and TLA+ sequences 1-based: the    *)
(* variable index keeps the Python value, so Python's zones[..][index]     *)
(* is zones[index + 1] here and zones[..][index - 1] is zones[index].      *)
(* Prices and timestamps are integers (the code holds them as floats with  *)
(* integral or exactly representable values in the modelled range).        *)
(***************************************************************************)
EXTENDS Integers, Sequences, FiniteSets, TLC

VARIABLES
    pc,                 \* position in the running function
    data,               \* candle DataFrame (generate_missing_candles, find_base_candles, find_zones)
    zones,              \* zone DataFrame / list (find_zones, append_zones, generate_chart)
    appended_zones,     \* append_zones: the DataFrame being built, then its return value
    index,              \* loop variable "index" of the running function; 0 = not yet bound
    flag,               \* append_zones: 1 right after a merge
    caller,             \* which call of append_zones in generate_chart is running
    nocffz,             \* find_base_candles: neighbours on each side
    max_num_touches,    \* find_zones: parameter
    base_pos,           \* find_zones: position in data of the base candle of the outer loop
    candle_pos,         \* find_zones: position in data last visited by the inner loop
    number_of_touches,  \* find_zones: running count
    input,              \* the argument the function under study was called with
    passes              \* generate_chart: executions of the while body so far

vars == <<pc, data, zones, appended_zones, index, flag, caller, nocffz,
          max_num_touches, base_pos, candle_pos, number_of_touches, input, passes>>

----------------------------------------------------------------------------
(* Bounds of the model *)
MaxZones == 3       \* longest zone list given to the merger
MaxPrice == 3       \* zone and candle prices range over 1..MaxPrice
MaxTs == 2          \* zone close_timestamps range over 1..MaxTs

Max(a, b) == IF a >= b THEN a ELSE b
Min(a, b) == IF a <= b THEN a ELSE b

Range(s) == {s[i] : i \in 1..Len(s)}

(* Sequences over S of length at most n *)
SeqUpTo(S, n) == UNION {[1..k -> S] : k \in 0..n}

----------------------------------------------------------------------------
(* Zone merger: append_zones and the loop of generate_chart *)

Zone(ct, high, low) == [close_timestamp |-> ct, high |-> high, low |-> low]

ZoneValues == {Zone(ct, h, l) : ct \in 1..MaxTs, h \in 1..MaxPrice, l \in 1..MaxPrice}

(* find_zones returns its zones sorted ascending by "low" *)
SortedByLow(s) == \A i \in 1..Len(s) - 1 : s[i].low <= s[i + 1].low

(* the scenario of the specification's section 8 *)
ExampleZones == <<Zone(1, 20, 10), Zone(2, 18, 15), Zone(3, 30, 25)>>

ZoneLists == {s \in SeqUpTo({z \in ZoneValues : z.high >= z.low}, MaxZones) : SortedByLow(s)}
                 \cup {ExampleZones}

(* line 245: the overlap test of the pair (index - 1, index) *)
Overlap(prev, cur) == prev.high >= cur.low

(* lines 246-247: the zone emitted for an overlapping pair *)
MergedZone(prev, cur) == Zone(prev.close_timestamp, cur.high, prev.low)

(* lines 251-252: the zone emitted for a pair that does not overlap *)
KeptZone(prev) == Zone(prev.close_timestamp, prev.high, prev.low)

(* lines 254-255: the zone emitted after the loop; index is the loop's last value *)
LastZone(z, idx) == Zone(z[idx].close_timestamp, z[Len(z)].high, z[Len(z)].low)

InitMerge ==
    /\ zones \in ZoneLists
    /\ input = zones
    /\ pc = "gc_while"
    /\ appended_zones = <<>>
    /\ index = 0
    /\ flag = 0
    /\ caller = "none"
    /\ passes = 0
    /\ data = <<>>
    /\ nocffz = 0
    /\ max_num_touches = 0
    /\ base_pos = 0
    /\ candle_pos = 0
    /\ number_of_touches = 0

UnchangedOther == UNCHANGED <<data, nocffz, max_num_touches, base_pos, candle_pos,
                              number_of_touches, input>>

(* lines 239-240: entry of append_zones; index is unbound until the for binds it *)
EnterAppendZones(who) ==
    /\ pc' = "az_for"
    /\ caller' = who
    /\ appended_zones' = <<>>
    /\ flag' = 0
    /\ index' = 0

(* line 273: the while condition calls append_zones(zones) *)
GcWhile ==
    /\ pc = "gc_while"
    /\ EnterAppendZones("cond")
    /\ UNCHANGED <<zones, passes>>
    /\ UnchangedOther

(* lines 241-244: an iteration right after a merge only clears the flag *)
AzSkip ==
    /\ pc = "az_for"
    /\ index + 1 <= Len(zones) - 1
    /\ flag = 1
    /\ index' = index + 1
    /\ flag' = 0
    /\ UNCHANGED <<pc, zones, appended_zones, caller, passes>>
    /\ UnchangedOther

(* lines 245-249: the pair overlaps or touches *)
AzMerge ==
    /\ pc = "az_for"
    /\ index + 1 <= Len(zones) - 1
    /\ flag = 0
    /\ Overlap(zones[index + 1], zones[index + 2])
    /\ index' = index + 1
    /\ appended_zones' = Append(appended_zones, MergedZone(zones[index + 1], zones[index + 2]))
    /\ flag' = 1
    /\ UNCHANGED <<pc, zones, caller, passes>>
    /\ UnchangedOther

(* lines 250-253: the pair does not overlap *)
AzKeep ==
    /\ pc = "az_for"
    /\ index + 1 <= Len(zones) - 1
    /\ flag = 0
    /\ ~Overlap(zones[index + 1], zones[index + 2])
    /\ index' = index + 1
    /\ appended_zones' = Append(appended_zones, KeptZone(zones[index + 1]))
    /\ UNCHANGED <<pc, zones, flag, caller, passes>>
    /\ UnchangedOther

(* line 241: range(1, len(zones)) is exhausted *)
AzExhaust ==
    /\ pc = "az_for"
    /\ index + 1 > Len(zones) - 1
    /\ pc' = "az_last"
    /\ UNCHANGED <<zones, appended_zones, index, flag, caller, passes>>
    /\ UnchangedOther

(* line 254 with fewer than two zones: the for never bound index, reading it raises *)
AzLastRaise ==
    /\ pc = "az_last"
    /\ index = 0
    /\ pc' = "raised"
    /\ UNCHANGED <<zones, appended_zones, index, flag, caller, passes>>
    /\ UnchangedOther

(* lines 254-258: the last zone is appended and the DataFrame returned *)
AzLastZone ==
    /\ pc = "az_last"
    /\ index # 0
    /\ appended_zones' = Append(appended_zones, LastZone(zones, index))
    /\ pc' = IF caller = "cond" THEN "gc_test" ELSE "gc_assign"
    /\ UNCHANGED <<zones, index, flag, caller, passes>>
    /\ UnchangedOther

(* line 273, condition true: the body calls append_zones(zones) again *)
GcEnterBody ==
    /\ pc = "gc_test"
    /\ Len(zones) > Len(appended_zones)
    /\ EnterAppendZones("body")
    /\ UNCHANGED <<zones, passes>>
    /\ UnchangedOther

(* line 274: zones = append_zones(zones) *)
GcAssign ==
    /\ pc = "gc_assign"
    /\ zones' = appended_zones
    /\ passes' = passes + 1
    /\ pc' = "gc_while"
    /\ UNCHANGED <<appended_zones, index, flag, caller>>
    /\ UnchangedOther

(* line 273, condition false: the loop is left with zones as the final list *)
GcExit ==
    /\ pc = "gc_test"
    /\ ~(Len(zones) > Len(appended_zones))
    /\ pc' = "gc_plot"
    /\ UNCHANGED <<zones, appended_zones, index, flag, caller, passes>>
    /\ UnchangedOther

NextMerge ==
    \/ GcWhile
    \/ AzSkip
    \/ AzMerge
    \/ AzKeep
    \/ AzExhaust
    \/ AzLastRaise
    \/ AzLastZone
    \/ GcEnterBody
    \/ GcAssign
    \/ GcExit

SpecMerge == InitMerge /\ [][NextMerge]_vars

----------------------------------------------------------------------------
(* Sorting a DataFrame: DataFrame.sort_values(by=..., ignore_index=True).
   The default sort kind is not stable, so rows with equal keys may come out
   in any order: SortsOf is the set of every ordering of the positions I
   that is ascending in keys. *)
RECURSIVE SortsOf(_, _)
SortsOf(keys, I) ==
    IF I = {} THEN {<<>>}
    ELSE UNION {{<<i>> \o t : t \in SortsOf(keys, I \ {i})} :
                    i \in {j \in I : \A k \in I : keys[j] <= keys[k]}}

Reorder(s, perm) == [k \in 1..Len(s) |-> s[perm[k]]]

----------------------------------------------------------------------------
(* Candle normaliser: generate_missing_candles *)

MaxRaw == 3                 \* most raw candles given to the normaliser
Durations == 1..2           \* milliseconds a raw candle spans
Gaps == 0..2                \* milliseconds missing before a raw candle
RawPrices == 1..2           \* raw open and close prices
RawVolumes == {2}           \* raw volume and trades_number

Candle(ot, o, h, l, c, v, ct, tn) ==
    [open_timestamp |-> ot, open |-> o, high |-> h, low |-> l, close |-> c,
     volume |-> v, close_timestamp |-> ct, trades_number |-> tn]

(* A raw candle is drawn as a shape: its duration, the time missing before
   it, its prices and volumes.  The exchange's candles are time buckets:
   each closes no earlier than it opens and opens after its predecessor
   closed, so open_timestamp is unique and ascending. *)
Shapes == [dur : Durations, gap : Gaps, open : RawPrices, close : RawPrices,
           volume : RawVolumes, trades_number : RawVolumes]

RECURSIVE OpenTs(_, _)
OpenTs(sh, k) ==
    IF k = 1 THEN 0
    ELSE OpenTs(sh, k - 1) + sh[k - 1].dur + sh[k].gap

RawCandles(sh) ==
    [k \in 1..Len(sh) |->
        Candle(OpenTs(sh, k), sh[k].open, Max(sh[k].open, sh[k].close),
               Min(sh[k].open, sh[k].close), sh[k].close, sh[k].volume,
               OpenTs(sh, k) + sh[k].dur - 1, sh[k].trades_number)]

(* line 126: the rows index - 1 and index are not contiguous in time *)
IsGap(prev, cur) == prev.close_timestamp + 1 # cur.open_timestamp

(* NewRow with the slip of closing the synthesised candle on the next
   candle's open_timestamp instead of one millisecond before it *)
NewRowClosesLate(prev, cur) ==
    Candle(prev.close_timestamp + 1,
           prev.close,
           Max(prev.close, cur.open),
           Min(prev.close, cur.open),
           cur.open,
           (prev.volume + cur.volume) \div 2,
           cur.open_timestamp,
           (prev.trades_number + cur.trades_number) \div 2)

(* lines 127-139: the candle synthesised for the gap between prev and cur *)
NewRow(prev, cur) ==
    Candle(prev.close_timestamp + 1,
           prev.close,
           Max(prev.close, cur.open),
           Min(prev.close, cur.open),
           cur.open,
           (prev.volume + cur.volume) \div 2,
           cur.open_timestamp - 1,
           (prev.trades_number + cur.trades_number) \div 2)

InitGap ==
    /\ \E sh \in SeqUpTo(Shapes, MaxRaw) : data = RawCandles(sh)
    /\ input = data
    /\ pc = "gm_for"
    /\ index = 0
    /\ zones = <<>>
    /\ appended_zones = <<>>
    /\ flag = 0
    /\ caller = "none"
    /\ passes = 0
    /\ nocffz = 0
    /\ max_num_touches = 0
    /\ base_pos = 0
    /\ candle_pos = 0
    /\ number_of_touches = 0

UnchangedGap == UNCHANGED <<zones, appended_zones, flag, caller, passes, nocffz,
                            max_num_touches, base_pos, candle_pos, number_of_touches, input>>

(* The loop runs over range(1, len(data)) fixed at entry: len(input) rows.
   pd.concat puts a new row after the existing ones and labels it 0; the
   labels index - 1 and index the loop reads afterwards are those of the
   original rows (label 0 is read only in the first iteration, before any
   row was added), which are the first len(input) positions of data. *)

(* lines 125-140: rows index - 1 and index leave a gap, a candle is added *)
GmFill ==
    /\ pc = "gm_for"
    /\ index + 1 <= Len(input) - 1
    /\ IsGap(data[index + 1], data[index + 2])
    /\ data' = Append(data, NewRow(data[index + 1], data[index + 2]))
    /\ index' = index + 1
    /\ UNCHANGED pc
    /\ UnchangedGap

(* lines 125-126: rows index - 1 and index are contiguous *)
GmNext ==
    /\ pc = "gm_for"
    /\ index + 1 <= Len(input) - 1
    /\ ~IsGap(data[index + 1], data[index + 2])
    /\ index' = index + 1
    /\ UNCHANGED <<pc, data>>
    /\ UnchangedGap

(* lines 141-142: the loop is over; sort by open_timestamp and return *)
GmSort ==
    /\ pc = "gm_for"
    /\ index + 1 > Len(input) - 1
    /\ \E perm \in SortsOf([k \in 1..Len(data) |-> data[k].open_timestamp], 1..Len(data)) :
           data' = Reorder(data, perm)
    /\ pc' = "gm_done"
    /\ UNCHANGED index
    /\ UnchangedGap

NextGap ==
    \/ GmFill
    \/ GmNext
    \/ GmSort

SpecGap == InitGap /\ [][NextGap]_vars

(* C8: the sequence returned by generate_missing_candles is ordered by
   open_timestamp, close_timestamp[i] + 1 = open_timestamp[i+1] for every
   consecutive pair, every raw candle is kept, and exactly one candle was
   added per pair of raw neighbours that was not contiguous and none
   elsewhere. *)
GapsOf(raw) == {i \in 1..Len(raw) - 1 : raw[i].close_timestamp + 1 # raw[i + 1].open_timestamp}

----------------------------------------------------------------------------
(* Momentum classifier: find_base_candles.  The rows carry the columns the
   function reads (open, close) and the two it adds. *)

MaxCls == 5                 \* most candles given to the classifier
MaxWindow == 2              \* nocffz ranges over 1..MaxWindow
ClsOpens == {1, 2}          \* open prices
ClsCloses == {1, 8}         \* close prices: momentum is one of 0, 1, 6, 7

Abs(x) == IF x >= 0 THEN x ELSE -x

(* the first index a Python for binds is first, then the next one; index = 0
   stands for the loop variable not bound yet *)
NextIndex(first) == IF index = 0 THEN first ELSE index + 1

(* lines 186-187: sum([momentum[i] for i in range(a, b + 1) if i != skip]),
   positions 1-based *)
RECURSIVE SumMomentum(_, _, _, _)
SumMomentum(d, a, b, skip) ==
    IF a > b THEN 0
    ELSE (IF a = skip THEN 0 ELSE d[a].momentum) + SumMomentum(d, a + 1, b, skip)

(* IsBase with the slip of a non-strict comparison *)
IsBaseNonStrict(d, i, w) == SumMomentum(d, i - w, i + w, i) >= 6 * d[i].momentum * (2 * w)

(* lines 186-187: sum / (2 * nocffz) > 6 * momentum[index].  The quotient is
   compared exactly by multiplying both sides by the positive 2 * nocffz. *)
IsBase(d, i, w) == SumMomentum(d, i - w, i + w, i) > 6 * d[i].momentum * (2 * w)

InitBase ==
    /\ data \in SeqUpTo([open : ClsOpens, close : ClsCloses], MaxCls)
    /\ nocffz \in 1..MaxWindow
    /\ input = data
    /\ pc = "fb_columns"
    /\ index = 0
    /\ zones = <<>>
    /\ appended_zones = <<>>
    /\ flag = 0
    /\ caller = "none"
    /\ passes = 0
    /\ max_num_touches = 0
    /\ base_pos = 0
    /\ candle_pos = 0
    /\ number_of_touches = 0

UnchangedBase == UNCHANGED <<zones, appended_zones, flag, caller, passes, nocffz,
                             max_num_touches, base_pos, candle_pos, number_of_touches, input>>

(* lines 180-182: every candle is typed "momentum" and gets its momentum *)
FbColumns ==
    /\ pc = "fb_columns"
    /\ data' = [k \in 1..Len(data) |->
                   [open |-> data[k].open, close |-> data[k].close,
                    candle_type |-> "momentum",
                    momentum |-> Abs(data[k].close - data[k].open)]]
    /\ pc' = "fb_for"
    /\ UNCHANGED index
    /\ UnchangedBase

(* lines 185-188: the candle at index is re-typed "base" *)
FbBase ==
    /\ pc = "fb_for"
    /\ NextIndex(nocffz) <= Len(data) - nocffz - 1
    /\ IsBase(data, NextIndex(nocffz) + 1, nocffz)
    /\ data' = [data EXCEPT ![NextIndex(nocffz) + 1].candle_type = "base"]
    /\ index' = NextIndex(nocffz)
    /\ UNCHANGED pc
    /\ UnchangedBase

(* lines 185-187: the candle at index keeps its type *)
FbKeep ==
    /\ pc = "fb_for"
    /\ NextIndex(nocffz) <= Len(data) - nocffz - 1
    /\ ~IsBase(data, NextIndex(nocffz) + 1, nocffz)
    /\ index' = NextIndex(nocffz)
    /\ UNCHANGED <<pc, data>>
    /\ UnchangedBase

(* line 190: range(nocffz, len(data) - nocffz) is exhausted *)
FbReturn ==
    /\ pc = "fb_for"
    /\ NextIndex(nocffz) > Len(data) - nocffz - 1
    /\ pc' = "fb_done"
    /\ UNCHANGED <<data, index>>
    /\ UnchangedBase

NextBase ==
    \/ FbColumns
    \/ FbBase
    \/ FbKeep
    \/ FbReturn

SpecBase == InitBase /\ [][NextBase]_vars

RECURSIVE SetSum(_, _)
SetSum(f, S) ==
    IF S = {} THEN 0
    ELSE LET x == CHOOSE y \in S : TRUE IN f[x] + SetSum(f, S \ {x})

(* C9: find_base_candles with window w over n candles sets momentum[i] =
   |close[i] - open[i]| for every i, leaves the first w and the last w
   candles typed "momentum", and types any other candle i "base" exactly
   when the mean of the momentum of its 2*w neighbours (i-w..i+w without i)
   is strictly greater than 6 * momentum[i]. *)
C9_BaseIffQuietAmongNeighbours ==
    pc = "fb_done" =>
        LET n == Len(input)
            w == nocffz
            m == [i \in 1..n |-> Abs(input[i].close - input[i].open)]
        IN  /\ Len(data) = n
            /\ \A i \in 1..n :
                  /\ data[i].momentum = m[i]
                  /\ data[i].open = input[i].open
                  /\ data[i].close = input[i].close
                  /\ data[i].candle_type \in {"momentum", "base"}
                  /\ (i <= w \/ i > n - w) => data[i].candle_type = "momentum"
                  /\ (i > w /\ i <= n - w) =>
                        (data[i].candle_type = "base" <=>
                            SetSum(m, {j \in 1..n : j # i /\ j >= i - w /\ j <= i + w})
                                > 2 * w * 6 * m[i])

(* a classified series with a base candle that itself moved, and an eligible
   candle whose neighbours' mean is exactly 6 times its own momentum and so
   stays "momentum" *)
C9_Witness ==
    /\ pc = "fb_done"
    /\ \E i \in 1..Len(data) : data[i].candle_type = "base" /\ data[i].momentum > 0
    /\ \E i \in 1..Len(data) :
          /\ i > nocffz /\ i <= Len(data) - nocffz
          /\ data[i].candle_type = "momentum"
          /\ data[i].momentum > 0
          /\ SumMomentum(data, i - nocffz, i + nocffz, i) = 12 * nocffz * data[i].momentum

----------------------------------------------------------------------------
(* Zone detector: find_zones.  The rows carry the columns the function
   reads; the series is normalised, so a candle opens one millisecond after
   its predecessor closed. *)

MaxDet == 3                 \* most candles given to the detector
MaxTouches == 1             \* max_num_touches ranges over 0..MaxTouches
DetPrices == 1..3           \* candle highs and lows

DetCandles(sh) ==
    [k \in 1..Len(sh) |->
        [open_timestamp |-> 2 * k, close_timestamp |-> 2 * k + 1,
         high |-> sh[k].high, low |-> sh[k].low, candle_type |-> sh[k].candle_type]]

(* lines 214-215: the candle's high or its low lies strictly inside the band *)
Touches(candle, base_candle) ==
    \/ (candle.high > base_candle.low /\ candle.high < base_candle.high)
    \/ (candle.low > base_candle.low /\ candle.low < base_candle.high)

(* line 212: the rows data[data["open_timestamp"] > base_candle["close_timestamp"]] *)
LaterRows(d, b) == {p \in 1..Len(d) : d[p].open_timestamp > d[b].close_timestamp}

(* line 209: the rows data[data["candle_type"] == "base"] *)
BaseRows(d) == {p \in 1..Len(d) : d[p].candle_type = "base"}

(* iterrows visits the selected rows in the order of the frame *)
NextRow(S, after) == IF \E p \in S : p > after
                     THEN CHOOSE p \in S : p > after /\ \A q \in S : q > after => p <= q
                     ELSE 0

(* line 217: the scan is abandoned *)
TooMany(n, max) == n > max

(* KeepZone with the slip of a strict comparison *)
KeepZoneStrict(n, max) == n < max

(* line 219: the zone is kept *)
KeepZone(n, max) == n <= max

(* lines 220-221 *)
ZoneOf(base_candle) == Zone(base_candle.close_timestamp, base_candle.high, base_candle.low)

InitZones ==
    /\ \E sh \in SeqUpTo({c \in [high : DetPrices, low : DetPrices,
                                 candle_type : {"momentum", "base"}] : c.high >= c.low},
                         MaxDet) : data = DetCandles(sh)
    /\ max_num_touches \in 0..MaxTouches
    /\ input = data
    /\ pc = "fz_outer"
    /\ zones = <<>>
    /\ base_pos = 0
    /\ candle_pos = 0
    /\ number_of_touches = 0
    /\ index = 0
    /\ appended_zones = <<>>
    /\ flag = 0
    /\ caller = "none"
    /\ passes = 0
    /\ nocffz = 0

UnchangedZones == UNCHANGED <<data, index, appended_zones, flag, caller, passes, nocffz,
                              max_num_touches, input>>

(* lines 209-211: the outer loop takes the next base candle *)
FzNextBase ==
    /\ pc = "fz_outer"
    /\ NextRow(BaseRows(data), base_pos) # 0
    /\ base_pos' = NextRow(BaseRows(data), base_pos)
    /\ number_of_touches' = 0
    /\ candle_pos' = 0
    /\ pc' = "fz_inner"
    /\ UNCHANGED zones
    /\ UnchangedZones

(* lines 212-218: the next later candle touches the band; the scan goes on
   unless the count now exceeds max_num_touches *)
FzTouch ==
    /\ pc = "fz_inner"
    /\ NextRow(LaterRows(data, base_pos), candle_pos) # 0
    /\ Touches(data[NextRow(LaterRows(data, base_pos), candle_pos)], data[base_pos])
    /\ candle_pos' = NextRow(LaterRows(data, base_pos), candle_pos)
    /\ number_of_touches' = number_of_touches + 1
    /\ pc' = IF TooMany(number_of_touches + 1, max_num_touches) THEN "fz_after" ELSE "fz_inner"
    /\ UNCHANGED <<zones, base_pos>>
    /\ UnchangedZones

(* lines 212-215: the next later candle does not touch the band *)
FzMiss ==
    /\ pc = "fz_inner"
    /\ NextRow(LaterRows(data, base_pos), candle_pos) # 0
    /\ ~Touches(data[NextRow(LaterRows(data, base_pos), candle_pos)], data[base_pos])
    /\ candle_pos' = NextRow(LaterRows(data, base_pos), candle_pos)
    /\ UNCHANGED <<pc, zones, base_pos, number_of_touches>>
    /\ UnchangedZones

(* line 212: no later candle is left *)
FzScanned ==
    /\ pc = "fz_inner"
    /\ NextRow(LaterRows(data, base_pos), candle_pos) = 0
    /\ pc' = "fz_after"
    /\ UNCHANGED <<zones, base_pos, candle_pos, number_of_touches>>
    /\ UnchangedZones

(* lines 219-221: the zone of the base candle is appended *)
FzAppend ==
    /\ pc = "fz_after"
    /\ KeepZone(number_of_touches, max_num_touches)
    /\ zones' = Append(zones, ZoneOf(data[base_pos]))
    /\ pc' = "fz_outer"
    /\ UNCHANGED <<base_pos, candle_pos, number_of_touches>>
    /\ UnchangedZones

(* line 219: the zone of the base candle is dropped *)
FzReject ==
    /\ pc = "fz_after"
    /\ ~KeepZone(number_of_touches, max_num_touches)
    /\ pc' = "fz_outer"
    /\ UNCHANGED <<zones, base_pos, candle_pos, number_of_touches>>
    /\ UnchangedZones

(* lines 223-225: no base candle is left; sort by low and return *)
FzReturn ==
    /\ pc = "fz_outer"
    /\ NextRow(BaseRows(data), base_pos) = 0
    /\ \E perm \in SortsOf([k \in 1..Len(zones) |-> zones[k].low], 1..Len(zones)) :
           zones' = Reorder(zones, perm)
    /\ pc' = "fz_done"
    /\ UNCHANGED <<base_pos, candle_pos, number_of_touches>>
    /\ UnchangedZones

NextZones ==
    \/ FzNextBase
    \/ FzTouch
    \/ FzMiss
    \/ FzScanned
    \/ FzAppend
    \/ FzReject
    \/ FzReturn

SpecZones == InitZones /\ [][NextZones]_vars

(* the candles that open after b closed and whose high or low lies strictly
   inside (b.low, b.high), each counted once *)
TouchingCandles(d, b) ==
    {c \in 1..Len(d) :
        /\ d[c].open_timestamp > d[b].close_timestamp
        /\ \/ (d[b].low < d[c].high /\ d[c].high < d[b].high)
           \/ (d[b].low < d[c].low /\ d[c].low < d[b].high)}

(* C7: find_zones returns the zone {close_timestamp, high, low} of a candle b
   if and only if b is typed base and at most max_num_touches later candles
   have their high or their low strictly inside (b.low, b.high); it returns
   nothing else and no zone twice. *)
C7_ZoneIffFewTouches ==
    pc = "fz_done" =>
        /\ \A b \in 1..Len(data) :
              ZoneOf(data[b]) \in Range(zones) <=>
                  /\ data[b].candle_type = "base"
                  /\ Cardinality(TouchingCandles(data, b)) <= max_num_touches
        /\ \A k \in 1..Len(zones) : \E b \in 1..Len(data) : zones[k] = ZoneOf(data[b])
        /\ \A j, k \in 1..Len(zones) : zones[j] = zones[k] => j = k

(* a run with max_num_touches = 0 in which one base candle was rejected for
   a single later candle whose high is inside its band and whose low is not,
   and another base candle was kept *)
C7_Witness ==
    /\ pc = "fz_done"
    /\ max_num_touches = 0
    /\ Len(zones) >= 1
    /\ \E b \in BaseRows(data) :
          /\ ZoneOf(data[b]) \notin Range(zones)
          /\ \E c \in 1..Len(data) :
                /\ TouchingCandles(data, b) = {c}
                /\ data[b].low < data[c].high /\ data[c].high < data[b].high
                /\ ~(data[b].low < data[c].low)

----------------------------------------------------------------------------
(* Properties of the merger *)

Returned == pc \in {"gc_test", "gc_assign"}

(* C1: the final list left by the loop of generate_chart has no overlapping
   or touching neighbours: zone[i].high < zone[i+1].low for every adjacent
   pair. *)
C1_FinalNonOverlap ==
    pc = "gc_plot" => \A i \in 1..Len(zones) - 1 : zones[i].high < zones[i + 1].low

(* C2: on a list of 0 or 1 zones append_zones and the loop of generate_chart
   complete without raising and leave the list unchanged. *)
C2_DegenerateUnchanged ==
    Len(input) <= 1 =>
        /\ pc # "raised"
        /\ Returned => appended_zones = input
        /\ pc = "gc_plot" => zones = input

(* C3: in a pass over two or more zones the last input zone is emitted as a
   zone of its own if and only if the last pair was not merged (flag = 0
   when the loop ends), so it is neither dropped nor emitted twice. *)
C3_LastZoneOnce ==
    [][(pc = "az_last" /\ Len(zones) >= 2) =>
          ((Len(appended_zones') = Len(appended_zones) + 1) <=> (flag = 0))]_vars

(* C4: a merge of the pair (prev, cur) emits a zone with low = prev.low and
   high at least prev.high and at least cur.high, and one pass over
   [(10,20),(15,18),(25,30)] returns [(10,20),(25,30)]. *)
C4_MergeSpansBoth ==
    [][/\ (pc = "az_for" /\ flag = 0 /\ flag' = 1) =>
            LET merged == appended_zones'[Len(appended_zones')]
                prev == zones[index + 1]
                cur == zones[index + 2]
            IN  /\ merged.low = prev.low
                /\ merged.high >= prev.high
                /\ merged.high >= cur.high
       /\ (zones = ExampleZones /\ pc = "az_last") =>
            /\ Len(appended_zones') = 2
            /\ appended_zones'[1].low = 10 /\ appended_zones'[1].high = 20
            /\ appended_zones'[2].low = 25 /\ appended_zones'[2].high = 30]_vars

(* C5: one more pass applied to the final output of the loop returns the
   same list (same length, same close_timestamp, high and low in every
   zone).  The last evaluation of the while condition is that pass: when the
   loop is left appended_zones holds append_zones(zones). *)
C5_FinalIsFixedPoint ==
    (pc = "gc_plot" /\ Len(input) >= 2) => appended_zones = zones

(* C6: for a non-empty input of N zones every pass returns between 1 and
   len(zones) zones, the body runs only when a pass shortened the list, and
   the loop runs at most N passes and never ends in an error. *)
C6_LoopTerminates ==
    Len(input) >= 1 =>
        /\ pc # "raised"
        /\ Returned => (1 <= Len(appended_zones) /\ Len(appended_zones) <= Len(zones))
        /\ pc = "gc_assign" => Len(appended_zones) < Len(zones)
        /\ passes <= Len(input)

(* C10: a zone that a pass merges with neither neighbour is emitted with its
   own close_timestamp, high and low; this includes the last zone of the
   list when the last pair was not merged. *)
C10_UnmergedUnchanged ==
    [][/\ (pc = "az_for" /\ flag = 0 /\ flag' = 0 /\ index' # index) =>
            appended_zones' = Append(appended_zones, zones[index'])
       /\ (pc = "az_last" /\ Len(zones) >= 2 /\ flag = 0) =>
            appended_zones' = Append(appended_zones, zones[Len(zones)])]_vars

====
